---- MODULE Spec2Model ----
(***************************************************************************)
(* Model of the PomodoroTimer component, src/src/components/Pomodoro.tsx.  *)
(*                                                                         *)
(* The React state of the component is one variable per useState cell.     *)
(* A handler (interval callback, visibilitychange listener, click and      *)
(* change handlers) reads the values of the render it was created in and   *)
(* issues a list of state updates; React applies the list at the next      *)
(* render and then runs the effects.  Under Spec every handler is rendered *)
(* before the next event is dispatched.                                    *)
(***************************************************************************)
EXTENDS Integers, Sequences, FiniteSets, TLC

\* ------------------------------------------------------------------ bounds
MountTime == 1000          \* Date.now() when the component mounts (ms)
MaxNow    == 122000        \* the wall clock is followed up to this instant (ms)
MaxCycles == 1             \* Work phases are followed while cycleCount < MaxCycles
MaxCountdown == 60       \* the earlier version counts down from at most this
MaxPending == 2            \* handlers that may run before one render
DisplaySeconds == 5400     \* SpecDisplay follows the clock second by second this long

\* Amounts of real time (ms) that pass between two events: just over a minute,
\* so that whole seconds are floored and two steps pass two one-minute phases.
Steps == {60500}

\* Whole minutes typed into the duration fields before a start.
ScheduleInputs == { <<"1">>, <<"2">> }

\* Minutes typed into the work time field before a start under SpecDisplay.
DisplayInputs == { <<"1">>, <<"9", "0">> }

\* Texts typed into the duration fields (e.target.value of a number input).
Inputs == { <<>>, <<"0">>, <<"-", "1">>, <<"1">>, <<"9", "1">> }

\* --------------------------------------------------------------- constants
Null == -1                 \* JavaScript null in a number | null cell

Positions == {"sitting", "standing"}

\* ------------------------------------------------------------------- state
VARIABLES
    workTime, breakTime, currentTime, isActive, isWorkSession, cycleCount,
    startTime, sessionStartTime,
    currentPosition, nextPosition, startingPosition,
    notificationPermission,
    effectNow,      \* `now` captured by the timer effect when it last ran
    now,            \* Date.now()
    queue,          \* state updates issued and not yet rendered
    pendingOps,     \* the handlers that issued them, in order
    sent,           \* sendNotification calls made by the handlers of the last batch
    shown,          \* Notification objects created by them
    lastOp,         \* the last event dispatched
    typed,          \* e.target.value of the last event, for a change event
    resumed,        \* how far the last events follow tick, pause, start: 0..3;
                    \* 4 after a pause of a countdown that had expired
    twin,           \* a second mount of the component that the two-run
                    \* specifications drive next to this one
    track           \* what SpecTracked remembers of the position buttons

stateVars == <<workTime, breakTime, currentTime, isActive, isWorkSession, cycleCount,
               startTime, sessionStartTime, currentPosition, nextPosition,
               startingPosition, notificationPermission>>

vars == <<workTime, breakTime, currentTime, isActive, isWorkSession, cycleCount,
          startTime, sessionStartTime, currentPosition, nextPosition,
          startingPosition, notificationPermission,
          effectNow, now, queue, pendingOps, sent, shown, lastOp, typed, resumed,
          twin, track>>

\* The values a handler created in the current render sees.
State ==
    [ workTime |-> workTime, breakTime |-> breakTime, currentTime |-> currentTime,
      isActive |-> isActive, isWorkSession |-> isWorkSession, cycleCount |-> cycleCount,
      startTime |-> startTime, sessionStartTime |-> sessionStartTime,
      currentPosition |-> currentPosition, nextPosition |-> nextPosition,
      startingPosition |-> startingPosition,
      notificationPermission |-> notificationPermission,
      effectNow |-> effectNow ]

\* ------------------------------------------------------- JavaScript helpers
Falsy(x) == x = Null \/ x = 0                      \* !x for a number | null
Or(x, y) == IF Falsy(x) THEN y ELSE x              \* x || y
Max(a, b) == IF a >= b THEN a ELSE b               \* Math.max
FloorDiv(a, b) == a \div b                         \* Math.floor(a / b), b > 0

Complement(p) == IF p = "sitting" THEN "standing" ELSE "sitting"

DigitValue ==
    [c \in {"0", "1", "2", "3", "4", "5", "6", "7", "8", "9"} |->
        CASE c = "0" -> 0 [] c = "1" -> 1 [] c = "2" -> 2 [] c = "3" -> 3
          [] c = "4" -> 4 [] c = "5" -> 5 [] c = "6" -> 6 [] c = "7" -> 7
          [] c = "8" -> 8 [] c = "9" -> 9]

IsDigit(c) == c \in DOMAIN DigitValue

\* The leading run of decimal digits of str from position i, read as a number
\* continuing acc; digits counts the digits read.
RECURSIVE ReadDigits(_, _, _, _)
ReadDigits(str, i, acc, digits) ==
    IF i <= Len(str) /\ IsDigit(str[i])
    THEN ReadDigits(str, i + 1, acc * 10 + DigitValue[str[i]], digits + 1)
    ELSE [n |-> acc, digits |-> digits]

\* parseInt(str): optional sign, then decimal digits up to the first other
\* character; NaN when there is no digit.
parseInt(str) ==
    LET neg  == Len(str) >= 1 /\ str[1] = "-"
        from == IF Len(str) >= 1 /\ str[1] \in {"-", "+"} THEN 2 ELSE 1
        r    == ReadDigits(str, from, 0, 0)
    IN  IF r.digits = 0 THEN [nan |-> TRUE, n |-> 0]
        ELSE [nan |-> FALSE, n |-> IF neg THEN 0 - r.n ELSE r.n]

\* parseInt(e.target.value) || dflt
OrDefault(p, dflt) == IF p.nan \/ p.n = 0 THEN dflt ELSE p.n

\* n.toString() for an integer n.
DigitChar == [n \in 0..9 |-> CHOOSE c \in DOMAIN DigitValue : DigitValue[c] = n]

RECURSIVE NatToString(_)
NatToString(n) ==
    IF n < 10 THEN << DigitChar[n] >> ELSE Append(NatToString(n \div 10), DigitChar[n % 10])

toString(n) == IF n < 0 THEN << "-" >> \o NatToString(0 - n) ELSE NatToString(n)

\* a % b of JavaScript for b > 0: the sign is that of a.
Rem(a, b) == IF a >= 0 THEN a % b ELSE 0 - ((0 - a) % b)

\* padStart, were it to pad nothing.
padStartNothing(str, targetLength, padString) == str

\* str.padStart(targetLength, padString) for a padString of one character.
RECURSIVE padStart(_, _, _)
padStart(str, targetLength, padString) ==
    IF Len(str) >= targetLength THEN str
    ELSE padStart(padString \o str, targetLength, padString)

\* The text of the time display.
formatTime(seconds) ==
    LET mins == FloorDiv(seconds, 60)
        secs == Rem(seconds, 60)
    IN  padStart(toString(mins), 2, << "0" >>) \o << ":" >>
            \o padStart(toString(secs), 2, << "0" >>)

\* ------------------------------------------------------------ state updates
Set(f, v) == [f |-> f, fn |-> "set", v |-> v]       \* setX(v)
Inc(f)    == [f |-> f, fn |-> "inc", v |-> 1]       \* setX((prev) => prev + 1)

ApplyUpdate(s, u) ==
    [s EXCEPT ![u.f] = IF u.fn = "inc" THEN @ + u.v ELSE u.v]

RECURSIVE ApplyAll(_, _)
ApplyAll(s, us) ==
    IF us = <<>> THEN s ELSE ApplyAll(ApplyUpdate(s, Head(us)), Tail(us))

\* What a handler does: the updates it issues and the sendNotification calls
\* it makes.
Does(us, calls) == [updates |-> us, calls |-> calls]

\* ----------------------------------------------------------------- handlers
\* sendNotification(title, body, icon) as called at a transition: the body
\* carries the minutes of the phase that begins and the position to switch to.
Notice(title, seconds, position, icon) ==
    [title |-> title, minutes |-> seconds \div 60, position |-> position, icon |-> icon]

\* sendNotification, were it to create the Notification whatever the permission.
sendNotificationAlways(c, calls) == calls

\* The Notification objects sendNotification creates for these calls.
sendNotification(c, calls) ==
    IF c.notificationPermission = "granted" THEN calls ELSE <<>>

\* Math.max(0, totalSessionTime - Math.floor((t - anchor) / 1000))
remainingTime(c, anchor, t) ==
    LET totalSessionTime == IF c.isWorkSession THEN c.workTime ELSE c.breakTime
        elapsedTime      == FloorDiv(t - anchor, 1000)
    IN  Max(0, totalSessionTime - elapsedTime)

\* d after the updates us.
After(us, d) == Does(us \o d.updates, d.calls)

\* timerFinished, were it to work through the phase that follows as well.
timerFinishedTwice(c, currentNow) ==
    IF c.isWorkSession
    THEN Does(<< Set("isWorkSession", TRUE),
                 Set("currentTime", c.workTime),
                 Inc("cycleCount"),
                 Set("sessionStartTime", currentNow) >>,
              << Notice("Work Session Complete!", c.breakTime, c.nextPosition, "coffee"),
                 Notice("Break Over!", c.workTime, c.currentPosition, "bolt") >>)
    ELSE Does(<< Set("isWorkSession", FALSE),
                 Set("currentTime", c.breakTime),
                 Inc("cycleCount"),
                 Set("sessionStartTime", currentNow) >>,
              << Notice("Break Over!", c.workTime, c.nextPosition, "bolt"),
                 Notice("Work Session Complete!", c.breakTime, c.currentPosition, "coffee") >>)

\* timerFinished, were its notification to name the position being left.
timerFinishedAnnouncesCurrent(c, currentNow) ==
    IF c.isWorkSession
    THEN Does(<< Set("isWorkSession", FALSE),
                 Set("currentTime", c.breakTime),
                 Inc("cycleCount"),
                 Set("sessionStartTime", currentNow),
                 Set("currentPosition", c.nextPosition),
                 Set("nextPosition", c.currentPosition) >>,
              << Notice("Work Session Complete!", c.breakTime, c.currentPosition, "coffee") >>)
    ELSE Does(<< Set("isWorkSession", TRUE),
                 Set("currentTime", c.workTime),
                 Set("sessionStartTime", currentNow),
                 Set("currentPosition", c.nextPosition),
                 Set("nextPosition", c.currentPosition) >>,
              << Notice("Break Over!", c.workTime, c.currentPosition, "bolt") >>)

\* timerFinished, were it to leave the positions as they are.
timerFinishedKeepsPositions(c, currentNow) ==
    IF c.isWorkSession
    THEN Does(<< Set("isWorkSession", FALSE),
                 Set("currentTime", c.breakTime),
                 Inc("cycleCount"),
                 Set("sessionStartTime", currentNow) >>,
              << Notice("Work Session Complete!", c.breakTime, c.nextPosition, "coffee") >>)
    ELSE Does(<< Set("isWorkSession", TRUE),
                 Set("currentTime", c.workTime),
                 Set("sessionStartTime", currentNow) >>,
              << Notice("Break Over!", c.workTime, c.nextPosition, "bolt") >>)

\* The branch of the interval callback taken when remainingTime <= 0.
timerFinished(c, currentNow) ==
    IF c.isWorkSession
    THEN Does(<< Set("isWorkSession", FALSE),
                 Set("currentTime", c.breakTime),
                 Inc("cycleCount"),
                 Set("sessionStartTime", currentNow),
                 Set("currentPosition", c.nextPosition),
                 Set("nextPosition", c.currentPosition) >>,
              << Notice("Work Session Complete!", c.breakTime, c.nextPosition, "coffee") >>)
    ELSE Does(<< Set("isWorkSession", TRUE),
                 Set("currentTime", c.workTime),
                 Set("sessionStartTime", currentNow),
                 Set("currentPosition", c.nextPosition),
                 Set("nextPosition", c.currentPosition) >>,
              << Notice("Break Over!", c.workTime, c.nextPosition, "bolt") >>)

\* intervalCallback, were it to show the time left and nothing more.
intervalCallbackDisplayOnly(c, currentNow) ==
    LET remaining == remainingTime(c, Or(c.sessionStartTime, c.effectNow), currentNow)
    IN  Does(<< Set("currentTime", remaining) >>, << >>)

\* The setInterval callback of the timer effect, run at currentNow.
intervalCallback(c, currentNow) ==
    LET remaining == remainingTime(c, Or(c.sessionStartTime, c.effectNow), currentNow)
    IN  After(<< Set("currentTime", remaining) >>,
              IF remaining <= 0 THEN timerFinished(c, currentNow) ELSE Does(<< >>, << >>))

\* endedInBackground, were it to count a cycle at the end of a break too.
endedInBackgroundCountsBreaks(c, t) ==
    IF c.isWorkSession
    THEN Does(<< Set("isWorkSession", FALSE),
                 Set("currentTime", c.breakTime),
                 Inc("cycleCount"),
                 Set("sessionStartTime", t),
                 Set("currentPosition", c.nextPosition),
                 Set("nextPosition", c.currentPosition) >>,
              << Notice("Work Session Complete!", c.breakTime, c.nextPosition, "coffee") >>)
    ELSE Does(<< Set("isWorkSession", TRUE),
                 Set("currentTime", c.workTime),
                 Inc("cycleCount"),
                 Set("sessionStartTime", t),
                 Set("currentPosition", c.nextPosition),
                 Set("nextPosition", c.currentPosition) >>,
              << Notice("Break Over!", c.workTime, c.nextPosition, "bolt") >>)

\* The branch of the visibilitychange listener taken when remainingTime <= 0.
endedInBackground(c, t) ==
    IF c.isWorkSession
    THEN Does(<< Set("isWorkSession", FALSE),
                 Set("currentTime", c.breakTime),
                 Inc("cycleCount"),
                 Set("sessionStartTime", t),
                 Set("currentPosition", c.nextPosition),
                 Set("nextPosition", c.currentPosition) >>,
              << Notice("Work Session Complete!", c.breakTime, c.nextPosition, "coffee") >>)
    ELSE Does(<< Set("isWorkSession", TRUE),
                 Set("currentTime", c.workTime),
                 Set("sessionStartTime", t),
                 Set("currentPosition", c.nextPosition),
                 Set("nextPosition", c.currentPosition) >>,
              << Notice("Break Over!", c.workTime, c.nextPosition, "bolt") >>)

\* The visibilitychange listener, run at t with document.hidden = hidden.
handleVisibilityChange(c, hidden, t) ==
    IF ~hidden /\ c.isActive /\ ~Falsy(c.sessionStartTime)
    THEN LET remaining == remainingTime(c, c.sessionStartTime, t)
         IN  After(<< Set("currentTime", remaining) >>,
                   IF remaining <= 0 THEN endedInBackground(c, t) ELSE Does(<< >>, << >>))
    ELSE Does(<< >>, << >>)

\* togglePosition, were it to stand the user up whatever the position.
togglePositionToStanding(c) ==
    Does(<< Set("currentPosition", "standing"), Set("nextPosition", "sitting") >>, << >>)

\* togglePosition, were it to leave nextPosition alone.
togglePositionCurrentOnly(c) ==
    LET newPosition == IF c.currentPosition = "sitting" THEN "standing" ELSE "sitting"
    IN  Does(<< Set("currentPosition", newPosition) >>, << >>)

togglePosition(c) ==
    LET newPosition == IF c.currentPosition = "sitting" THEN "standing" ELSE "sitting"
        newNext     == IF newPosition = "sitting" THEN "standing" ELSE "sitting"
    IN  Does(<< Set("currentPosition", newPosition), Set("nextPosition", newNext) >>, << >>)

startTimer(c, t) ==
    Does(<< Set("isActive", TRUE), Set("startTime", t), Set("sessionStartTime", t) >>, << >>)

\* pauseTimer, were it to settle a countdown that has expired.
pauseTimerSettlesExpiry(c) ==
    After(<< Set("isActive", FALSE), Set("startTime", Null) >>,
          IF remainingTime(c, c.sessionStartTime, now) <= 0
          THEN timerFinished(c, Null)
          ELSE Does(<< Set("sessionStartTime", Null) >>, << >>))

\* pauseTimer, were it to keep the anchor.
pauseTimerKeepsAnchor(c) ==
    Does(<< Set("isActive", FALSE), Set("startTime", Null) >>, << >>)

pauseTimer(c) ==
    Does(<< Set("isActive", FALSE), Set("startTime", Null), Set("sessionStartTime", Null) >>,
         << >>)

\* The handler the start/pause button has in the render c.
startPauseClicked(c, t) == IF c.isActive THEN pauseTimer(c) ELSE startTimer(c, t)

\* resetTimer, were it to keep the cycle count.
resetTimerKeepsCycles(c) ==
    Does(<< Set("isActive", FALSE),
            Set("isWorkSession", TRUE),
            Set("currentTime", c.workTime),
            Set("currentPosition", c.startingPosition),
            Set("nextPosition",
                IF c.startingPosition = "sitting" THEN "standing" ELSE "sitting"),
            Set("startTime", Null),
            Set("sessionStartTime", Null) >>, << >>)

resetTimer(c) ==
    Does(<< Set("isActive", FALSE),
            Set("isWorkSession", TRUE),
            Set("currentTime", c.workTime),
            Set("currentPosition", c.startingPosition),
            Set("nextPosition",
                IF c.startingPosition = "sitting" THEN "standing" ELSE "sitting"),
            Set("cycleCount", 0),
            Set("startTime", Null),
            Set("sessionStartTime", Null) >>, << >>)

\* updateWorkTime, were it to show the new duration while the timer is active.
updateWorkTimeShowsAtOnce(c, minutes) ==
    LET seconds == minutes * 60
    IN  Does(<< Set("workTime", seconds) >>
             \o (IF c.isWorkSession
                 THEN << Set("currentTime", seconds) >> ELSE << >>), << >>)

updateWorkTime(c, minutes) ==
    LET seconds == minutes * 60
    IN  Does(<< Set("workTime", seconds) >>
             \o (IF c.isWorkSession /\ ~c.isActive
                 THEN << Set("currentTime", seconds) >> ELSE << >>), << >>)

\* updateBreakTime, were it to show the new duration in either phase.
updateBreakTimeAnyPhase(c, minutes) ==
    LET seconds == minutes * 60
    IN  Does(<< Set("breakTime", seconds) >>
             \o (IF ~c.isActive
                 THEN << Set("currentTime", seconds) >> ELSE << >>), << >>)

updateBreakTime(c, minutes) ==
    LET seconds == minutes * 60
    IN  Does(<< Set("breakTime", seconds) >>
             \o (IF ~c.isWorkSession /\ ~c.isActive
                 THEN << Set("currentTime", seconds) >> ELSE << >>), << >>)

\* onChange of the two duration fields.
workTimeChanged(c, value)  == updateWorkTime(c, OrDefault(parseInt(value), 25))
breakTimeChanged(c, value) == updateBreakTime(c, OrDefault(parseInt(value), 5))

\* setInitialPosition, were it to take effect at the next reset only.
setInitialPositionDeferred(c, position) ==
    Does(<< Set("startingPosition", position) >>, << >>)

setInitialPosition(c, position) ==
    Does(<< Set("startingPosition", position),
            Set("currentPosition", position),
            Set("nextPosition", IF position = "sitting" THEN "standing" ELSE "sitting") >>,
         << >>)

\* ------------------------------------------------------------------ render
\* The dependency list of the timer effect: it runs again when one differs.
timerEffectDeps(s) ==
    << s.isActive, s.isWorkSession, s.workTime, s.breakTime, s.currentPosition,
       s.nextPosition, s.notificationPermission, s.startTime, s.sessionStartTime >>

\* The timer effect, were every run on an active timer to anchor it anew.
timerEffectAnchorsAnew(s, old, t) ==
    IF timerEffectDeps(s) = timerEffectDeps(old) THEN s
    ELSE IF s.isActive
         THEN [s EXCEPT !.startTime = t, !.sessionStartTime = t, !.effectNow = Null]
         ELSE [s EXCEPT !.effectNow = Null]

\* The timer effect after a render at t from the rendered state old to s.
\* When the timer is active without a start time it anchors it.  The `now`
\* it captures is read by the interval callback only through
\* (sessionStartTime || now), so it is kept while that closure's
\* sessionStartTime is falsy; the interval and its closure are dropped when
\* the timer is inactive.
timerEffect(s, old, t) ==
    IF timerEffectDeps(s) = timerEffectDeps(old) THEN s
    ELSE IF s.isActive
         THEN IF Falsy(s.startTime)
              THEN [s EXCEPT !.startTime = t, !.sessionStartTime = t, !.effectNow = Null]
              ELSE [s EXCEPT !.effectNow = IF Falsy(s.sessionStartTime) THEN t ELSE Null]
         ELSE [s EXCEPT !.effectNow = Null]

\* Render at t: the pending updates are applied in order, then the effect runs
\* on the one state s they give.
Render(old, us, t) ==
    CHOOSE rendered \in {timerEffect(s, old, t) : s \in {ApplyAll(old, us)}} : TRUE

Commit(s) ==
    /\ workTime' = s.workTime
    /\ breakTime' = s.breakTime
    /\ currentTime' = s.currentTime
    /\ isActive' = s.isActive
    /\ isWorkSession' = s.isWorkSession
    /\ cycleCount' = s.cycleCount
    /\ startTime' = s.startTime
    /\ sessionStartTime' = s.sessionStartTime
    /\ currentPosition' = s.currentPosition
    /\ nextPosition' = s.nextPosition
    /\ startingPosition' = s.startingPosition
    /\ notificationPermission' = s.notificationPermission
    /\ effectNow' = s.effectNow

phaseDuration == IF isWorkSession THEN workTime ELSE breakTime

\* The countdown of the running phase has expired at now.
Expired ==
    /\ isActive
    /\ sessionStartTime # Null
    /\ now - sessionStartTime >= 1000 * phaseDuration

\* An event whose handler does d, rendered before the next event; value is
\* the text of a change event.
Handled(op, value, d) ==
    /\ queue = << >>
    /\ \E rendered \in {Render(State, d.updates, now)} : Commit(rendered)
    /\ UNCHANGED <<queue, pendingOps>>
    /\ sent' = d.calls
    /\ shown' = sendNotification(State, d.calls)
    /\ lastOp' = op
    /\ typed' = value
    /\ resumed' = (IF op = "tick" THEN 1
                   ELSE IF op = "pause" /\ resumed = 1 THEN 2
                   ELSE IF op = "start" /\ resumed = 2 THEN 3
                   ELSE IF op = "pause" /\ Expired THEN 4
                   ELSE 0)
    /\ now' = now

DispatchInput(op, value, d) == Handled(op, value, d) /\ UNCHANGED <<twin, track>>

Dispatch(op, d) == DispatchInput(op, << >>, d)

\* ------------------------------------------------------------------ actions
Mounted ==
    /\ workTime = 30 * 60
    /\ breakTime = 10 * 60
    /\ currentTime = 30 * 60
    /\ isActive = FALSE
    /\ isWorkSession = TRUE
    /\ cycleCount = 0
    /\ startTime = Null
    /\ sessionStartTime = Null
    /\ currentPosition = "sitting"
    /\ nextPosition = "standing"
    /\ startingPosition = "sitting"
    /\ notificationPermission \in {"default", "granted", "denied"}
    /\ effectNow = Null
    /\ now = MountTime
    /\ queue = << >>
    /\ pendingOps = << >>
    /\ sent = << >>
    /\ shown = << >>
    /\ lastOp = "mount"
    /\ typed = << >>
    /\ resumed = 0
    /\ track = [manual |-> FALSE, toggles |-> 0, before |-> <<"sitting", "standing">>,
                retimed |-> "no"]

\* A second mount in state s; tickedAt is when its interval last fired.
Twin(s) == [st |-> s, tickedAt |-> Null]

\* The second mount is left as mounted, with permission not yet asked, by the
\* specifications of one mount.
Init == Mounted /\ twin = Twin([State EXCEPT !.notificationPermission = "default"])

\* Real time passes.
ClockAdvance ==
    \E d \in Steps :
        /\ queue = << >>
        /\ now + d <= MaxNow
        /\ now' = now + d
        /\ lastOp' = "advance"
        /\ sent' = << >>
        /\ shown' = << >>
        /\ typed' = << >>
        /\ resumed' = 0
        /\ UNCHANGED <<stateVars, effectNow, queue, pendingOps, twin, track>>

\* Notification.requestPermission() resolves.
PermissionResolved ==
    \E permission \in {"granted", "denied"} :
        /\ notificationPermission = "default"
        /\ Dispatch("permission", Does(<< Set("notificationPermission", permission) >>, << >>))

\* Work phases are followed while cycleCount < MaxCycles.
WithinCycles == cycleCount < MaxCycles \/ ~isWorkSession

\* The interval of the timer effect fires.
Tick ==
    /\ isActive
    /\ WithinCycles
    /\ Dispatch("tick", intervalCallback(State, now))

\* The document's visibility changes; resync is the change to visible.
Resync ==
    \E hidden \in BOOLEAN :
        /\ WithinCycles
        /\ Dispatch(IF hidden THEN "hide" ELSE "resync",
                    handleVisibilityChange(State, hidden, now))

\* The start/pause button: onClick={isActive ? pauseTimer : startTimer}.
Start == ~isActive /\ Dispatch("start", startTimer(State, now))

Pause == isActive /\ Dispatch("pause", pauseTimer(State))

Reset == Dispatch("reset", resetTimer(State))

Toggle == Dispatch("toggle", togglePosition(State))

SetWorkDurationFrom(values) ==
    \E value \in values : DispatchInput("setWork", value, workTimeChanged(State, value))

SetBreakDurationFrom(values) ==
    \E value \in values : DispatchInput("setBreak", value, breakTimeChanged(State, value))

SetWorkDuration == SetWorkDurationFrom(Inputs)

SetBreakDuration == SetBreakDurationFrom(Inputs)

SetStartingPosition ==
    \E position \in Positions : Dispatch("setStarting", setInitialPosition(State, position))

Next ==
    \/ ClockAdvance
    \/ PermissionResolved
    \/ Tick
    \/ Resync
    \/ Start
    \/ Pause
    \/ Reset
    \/ Toggle
    \/ SetWorkDuration
    \/ SetBreakDuration
    \/ SetStartingPosition

Spec == Init /\ [][Next]_vars

\* The clock and the two duration fields alone: the events of Spec without the
\* position buttons, reset, the visibility listener and the permission.
NextSettings ==
    \/ ClockAdvance
    \/ Tick
    \/ Start
    \/ Pause
    \/ SetWorkDuration
    \/ SetBreakDuration

SpecSettings == Init /\ [][NextSettings]_vars

\* startTimer called whatever isActive is: the function has no test of its
\* own, the test is the button's (Start above).
StartCalled == Dispatch("start", startTimer(State, now))

NextStartCalled ==
    \/ ClockAdvance
    \/ Tick
    \/ StartCalled
    \/ Pause
    \/ SetWorkDuration
    \/ SetBreakDuration

SpecStartCalled == Init /\ [][NextStartCalled]_vars

\* ------------------------------------------------- handlers before a render
\* React renders the updates of an interval callback or of a native event
\* listener in a later task.  Until then the handlers that run are those of
\* the last render: they read the same values and add to the same batch.
\* Events that render at once are taken when nothing is pending.

\* Duration texts typed under SpecStale.
StaleInputs == { <<"1">> }

\* A handler that does d runs; its updates wait for the render.
Enqueue(op, d) ==
    /\ d.updates # << >>
    /\ Len(pendingOps) < MaxPending
    /\ queue' = queue \o d.updates
    /\ pendingOps' = Append(pendingOps, op)
    /\ sent' = (IF queue = << >> THEN << >> ELSE sent) \o d.calls
    /\ shown' = (IF queue = << >> THEN << >> ELSE shown) \o sendNotification(State, d.calls)
    /\ lastOp' = op
    /\ typed' = << >>
    /\ resumed' = 0
    /\ UNCHANGED <<stateVars, effectNow, now, twin, track>>

TickPending == isActive /\ WithinCycles /\ Enqueue("tick", intervalCallback(State, now))

ResyncPending == WithinCycles /\ Enqueue("resync", handleVisibilityChange(State, FALSE, now))

TogglePending == Enqueue("toggle", togglePosition(State))

\* React renders the batch.
RenderPending ==
    /\ queue # << >>
    /\ Commit(Render(State, queue, now))
    /\ queue' = << >>
    /\ pendingOps' = << >>
    /\ lastOp' = "render"
    /\ UNCHANGED <<now, sent, shown, typed, resumed, twin, track>>

SetWorkDurationStale == SetWorkDurationFrom(StaleInputs)

SetBreakDurationStale == SetBreakDurationFrom(StaleInputs)

NextStale ==
    \/ ClockAdvance
    \/ Start
    \/ Pause
    \/ Reset
    \/ SetWorkDurationStale
    \/ SetBreakDurationStale
    \/ SetStartingPosition
    \/ TickPending
    \/ ResyncPending
    \/ TogglePending
    \/ RenderPending

SpecStale == Init /\ [][NextStale]_vars

\* ------------------------------------------------------ a timer left running
\* The durations are set to whole minutes before the start; from then on the
\* timer is left running.  Time keeps passing up to MaxNow and the interval
\* keeps firing: setInterval(..., 100) repeats until the effect clears it,
\* which it does only when isActive turns false.
SetWorkDurationIdle == ~isActive /\ SetWorkDurationFrom(ScheduleInputs)

SetBreakDurationIdle == ~isActive /\ SetBreakDurationFrom(ScheduleInputs)

NextRunning ==
    \/ ClockAdvance
    \/ SetWorkDurationIdle
    \/ SetBreakDurationIdle
    \/ Start
    \/ Tick
    \/ Resync
    \/ Toggle

SpecRunning ==
    /\ Init
    /\ [][NextRunning]_vars
    /\ WF_vars(ClockAdvance)
    /\ WF_vars(Tick)

\* ------------------------------------------- the position buttons remembered
\* The events of Spec, with a record of the position buttons: manual tells
\* that the toggle or a starting position button was used since the mount or
\* the last reset; toggles counts the toggles in a row, up to two, and before
\* holds the current and next position from before the first of them; retimed
\* is "set" after the duration of the running phase was changed and "ticked"
\* after the interval fired next.
RetimesRunningPhase(op) ==
    /\ isActive
    /\ (op = "setWork" /\ isWorkSession) \/ (op = "setBreak" /\ ~isWorkSession)

Tracked(op, value, d) ==
    /\ Handled(op, value, d)
    /\ UNCHANGED twin
    /\ track' =
          [ manual  |-> IF op = "reset" THEN FALSE
                        ELSE IF op \in {"toggle", "setStarting"} THEN TRUE
                        ELSE track.manual,
            toggles |-> IF op # "toggle" THEN 0
                        ELSE IF track.toggles = 1 THEN 2 ELSE 1,
            before  |-> IF op = "toggle" /\ track.toggles = 1 THEN track.before
                        ELSE <<currentPosition, nextPosition>>,
            retimed |-> IF RetimesRunningPhase(op) THEN "set"
                        ELSE IF op = "tick" /\ track.retimed = "set" THEN "ticked"
                        ELSE "no" ]

TickTracked == isActive /\ WithinCycles /\ Tracked("tick", << >>, intervalCallback(State, now))

ResyncTracked ==
    \E hidden \in BOOLEAN :
        /\ WithinCycles
        /\ Tracked(IF hidden THEN "hide" ELSE "resync", << >>,
                   handleVisibilityChange(State, hidden, now))

StartPauseTracked ==
    Tracked(IF isActive THEN "pause" ELSE "start", << >>, startPauseClicked(State, now))

ResetTracked == Tracked("reset", << >>, resetTimer(State))

ToggleTracked == Tracked("toggle", << >>, togglePosition(State))

SetStartingPositionTracked ==
    \E position \in Positions :
        Tracked("setStarting", <<position>>, setInitialPosition(State, position))

WorkTimeChangedTracked ==
    \E value \in StaleInputs : Tracked("setWork", value, workTimeChanged(State, value))

BreakTimeChangedTracked ==
    \E value \in StaleInputs : Tracked("setBreak", value, breakTimeChanged(State, value))

NextTracked ==
    \/ ClockAdvance
    \/ TickTracked
    \/ ResyncTracked
    \/ StartPauseTracked
    \/ ResetTracked
    \/ ToggleTracked
    \/ SetStartingPositionTracked
    \/ WorkTimeChangedTracked
    \/ BreakTimeChangedTracked

SpecTracked == Init /\ [][NextTracked]_vars

\* ------------------------------------------------- the display by the second
\* A timer started at the mount with a work time of whole minutes, whose
\* interval fires once in every second: the display goes through every
\* number of seconds of the Work phase.
SetWorkDurationDisplayed == ~isActive /\ SetWorkDurationFrom(DisplayInputs)

SecondPasses ==
    /\ isActive
    /\ lastOp \in {"start", "tick"}
    /\ now + 1000 <= MountTime + 1000 * DisplaySeconds
    /\ now' = now + 1000
    /\ lastOp' = "advance"
    /\ sent' = << >>
    /\ shown' = << >>
    /\ typed' = << >>
    /\ resumed' = 0
    /\ UNCHANGED <<stateVars, effectNow, queue, pendingOps, twin, track>>

NextDisplay ==
    \/ SetWorkDurationDisplayed
    \/ Start
    \/ SecondPasses
    \/ Tick

SpecDisplay == Init /\ [][NextDisplay]_vars

\* ------------------------------------------------------------- two mounts
\* The second mount handles an event whose handler does d, and renders.
TwinDoes(d) == twin' = [twin EXCEPT !.st = Render(twin.st, d.updates, now)]

\* The same event in both mounts.
Both(op, value, d, dTwin) == Handled(op, value, d) /\ TwinDoes(dTwin) /\ UNCHANGED track

\* What the display shows of the clock and the positions.
Observed(s) ==
    << s.isWorkSession, s.currentTime, s.isActive, s.cycleCount,
       s.currentPosition, s.nextPosition >>

\* Two mounts configured and started alike, whose intervals then fire each
\* on its own schedule.

SetWorkDurationBoth ==
    \E value \in ScheduleInputs :
        /\ ~isActive
        /\ Both("setWork", value, workTimeChanged(State, value),
                workTimeChanged(twin.st, value))

SetBreakDurationBoth ==
    \E value \in ScheduleInputs :
        /\ ~isActive
        /\ Both("setBreak", value, breakTimeChanged(State, value),
                breakTimeChanged(twin.st, value))

StartBoth ==
    /\ ~isActive
    /\ Both("start", << >>, startTimer(State, now), startTimer(twin.st, now))

\* The interval of the second mount fires.
TickTwin ==
    /\ twin.st.isActive
    /\ twin.st.cycleCount < MaxCycles \/ ~twin.st.isWorkSession
    /\ twin' = [st |-> Render(twin.st, intervalCallback(twin.st, now).updates, now),
                tickedAt |-> now]
    /\ UNCHANGED <<stateVars, effectNow, now, queue, pendingOps, sent, shown,
                   lastOp, typed, resumed, track>>

NextSchedules ==
    \/ ClockAdvance
    \/ SetWorkDurationBoth
    \/ SetBreakDurationBoth
    \/ StartBoth
    \/ Tick
    \/ TickTwin

SpecSchedules == Init /\ [][NextSchedules]_vars

\* Two mounts that differ in the notification permission only and receive the
\* same events at the same times.
Permissions == {"default", "granted", "denied"}

InitPermissions ==
    /\ Mounted
    /\ \E permission \in Permissions :
            twin = Twin([State EXCEPT !.notificationPermission = permission])

\* Notification.requestPermission() resolves in the second mount.
PermissionResolvedTwin ==
    \E permission \in {"granted", "denied"} :
        /\ queue = << >>
        /\ twin.st.notificationPermission = "default"
        /\ TwinDoes(Does(<< Set("notificationPermission", permission) >>, << >>))
        /\ UNCHANGED <<stateVars, effectNow, now, queue, pendingOps, sent, shown,
                       lastOp, typed, resumed, track>>

\* The interval of the render c fires, if that render has one.
intervalFired(c, t) == IF c.isActive THEN intervalCallback(c, t) ELSE Does(<< >>, << >>)

StartPauseBoth ==
    Both(IF isActive THEN "pause" ELSE "start", << >>,
         startPauseClicked(State, now), startPauseClicked(twin.st, now))

ResetBoth == Both("reset", << >>, resetTimer(State), resetTimer(twin.st))

ToggleBoth == Both("toggle", << >>, togglePosition(State), togglePosition(twin.st))

SetStartingPositionBoth ==
    \E position \in Positions :
        Both("setStarting", << >>, setInitialPosition(State, position),
             setInitialPosition(twin.st, position))

WorkTimeChangedBoth ==
    \E value \in StaleInputs :
        Both("setWork", value, workTimeChanged(State, value),
             workTimeChanged(twin.st, value))

BreakTimeChangedBoth ==
    \E value \in StaleInputs :
        Both("setBreak", value, breakTimeChanged(State, value),
             breakTimeChanged(twin.st, value))

TickBoth ==
    /\ isActive \/ twin.st.isActive
    /\ WithinCycles
    /\ twin.st.cycleCount < MaxCycles \/ ~twin.st.isWorkSession
    /\ Both("tick", << >>, intervalFired(State, now), intervalFired(twin.st, now))

ResyncBoth ==
    \E hidden \in BOOLEAN :
        /\ WithinCycles
        /\ twin.st.cycleCount < MaxCycles \/ ~twin.st.isWorkSession
        /\ Both(IF hidden THEN "hide" ELSE "resync", << >>,
                handleVisibilityChange(State, hidden, now),
                handleVisibilityChange(twin.st, hidden, now))

NextPermissions ==
    \/ ClockAdvance
    \/ PermissionResolved
    \/ PermissionResolvedTwin
    \/ StartPauseBoth
    \/ ResetBoth
    \/ ToggleBoth
    \/ SetStartingPositionBoth
    \/ WorkTimeChangedBoth
    \/ BreakTimeChangedBoth
    \/ TickBoth
    \/ ResyncBoth

SpecPermissions == InitPermissions /\ [][NextPermissions]_vars

\* ------------------------------------------ the earlier version of the timer
\* src/unnamed/part_000 keeps no anchor: its interval callback lowers
\* currentTime by one each second.  Its state cells are those of the
\* component without startTime and sessionStartTime, which stay null here.

\* The setInterval callback, were the timer to keep running into the next phase.
intervalCallbackEarlierKeepsRunning(c, prevTime) ==
    IF prevTime <= 1
    THEN LET wasWorkSession == c.isWorkSession
         IN  Does((IF wasWorkSession
                   THEN << Set("isWorkSession", FALSE),
                           Set("currentTime", c.breakTime),
                           Inc("cycleCount") >>
                   ELSE << Set("isWorkSession", TRUE),
                           Set("currentTime", c.workTime) >>)
                  \o << Set("currentPosition", c.nextPosition),
                        Set("nextPosition", c.currentPosition),
                        Set("currentTime", IF wasWorkSession THEN c.breakTime ELSE c.workTime) >>,
                  IF wasWorkSession
                  THEN << Notice("Work Session Complete!", c.breakTime, c.nextPosition, "coffee") >>
                  ELSE << Notice("Break Over!", c.workTime, c.nextPosition, "bolt") >>)
    ELSE Does(<< Set("currentTime", prevTime - 1) >>, << >>)

\* The setInterval callback: setCurrentTime(prevTime => ...), whose updater
\* issues the updates of the transition when prevTime <= 1 and returns the
\* new currentTime.
intervalCallbackEarlier(c, prevTime) ==
    IF prevTime <= 1
    THEN LET wasWorkSession == c.isWorkSession
         IN  Does(<< Set("isActive", FALSE) >>
                  \o (IF wasWorkSession
                      THEN << Set("isWorkSession", FALSE),
                              Set("currentTime", c.breakTime),
                              Inc("cycleCount") >>
                      ELSE << Set("isWorkSession", TRUE),
                              Set("currentTime", c.workTime) >>)
                  \o << Set("currentPosition", c.nextPosition),
                        Set("nextPosition", c.currentPosition),
                        Set("currentTime", IF wasWorkSession THEN c.breakTime ELSE c.workTime) >>,
                  IF wasWorkSession
                  THEN << Notice("Work Session Complete!", c.breakTime, c.nextPosition, "coffee") >>
                  ELSE << Notice("Break Over!", c.workTime, c.nextPosition, "bolt") >>)
    ELSE Does(<< Set("currentTime", prevTime - 1) >>, << >>)

startTimerEarlier(c) == Does(<< Set("isActive", TRUE) >>, << >>)

pauseTimerEarlier(c) == Does(<< Set("isActive", FALSE) >>, << >>)

resetTimerEarlier(c) ==
    Does(<< Set("isActive", FALSE),
            Set("isWorkSession", TRUE),
            Set("currentTime", c.workTime),
            Set("currentPosition", c.startingPosition),
            Set("nextPosition",
                IF c.startingPosition = "sitting" THEN "standing" ELSE "sitting"),
            Set("cycleCount", 0) >>, << >>)

\* An event of the earlier version, rendered before the next one.  Its timer
\* effect sets no state: it keeps an interval while isActive && currentTime > 0.
HandledEarlier(op, value, d) ==
    /\ queue = << >>
    /\ \E rendered \in {ApplyAll(State, d.updates)} : Commit(rendered)
    /\ sent' = d.calls
    /\ shown' = sendNotification(State, d.calls)
    /\ lastOp' = op
    /\ typed' = value
    /\ resumed' = 0
    /\ UNCHANGED <<now, queue, pendingOps, twin, track>>

\* The interval fires, a second after the render that created it.
TickEarlier ==
    /\ isActive /\ currentTime > 0
    /\ currentTime <= MaxCountdown
    /\ WithinCycles
    /\ HandledEarlier("tick", << >>, intervalCallbackEarlier(State, currentTime))

\* The start/pause button: onClick={isActive ? pauseTimer : startTimer}.
StartEarlier == ~isActive /\ HandledEarlier("start", << >>, startTimerEarlier(State))

PauseEarlier == isActive /\ HandledEarlier("pause", << >>, pauseTimerEarlier(State))

ResetEarlier == HandledEarlier("reset", << >>, resetTimerEarlier(State))

ToggleEarlier == HandledEarlier("toggle", << >>, togglePosition(State))

WorkTimeChangedEarlier ==
    \E value \in StaleInputs : HandledEarlier("setWork", value, workTimeChanged(State, value))

BreakTimeChangedEarlier ==
    \E value \in StaleInputs : HandledEarlier("setBreak", value, breakTimeChanged(State, value))

NextEarlier ==
    \/ TickEarlier
    \/ StartEarlier
    \/ PauseEarlier
    \/ ResetEarlier
    \/ ToggleEarlier
    \/ WorkTimeChangedEarlier
    \/ BreakTimeChangedEarlier

SpecEarlier == Init /\ [][NextEarlier]_vars

\* ------------------------------------------------------------------ claims
Recomputed == lastOp \in {"tick", "resync"}

\* C1: one tick or resync on an expired countdown, however late, performs
\* exactly one phase transition: the phase flips, cycleCount grows by 1 after
\* Work and by 0 after Break, remaining is the next phase's full duration,
\* the phase is anchored at now and one notification is sent.
C1_OneTransitionPerExpiry ==
    [][ (Recomputed' /\ Expired) =>
            /\ isWorkSession' = ~isWorkSession
            /\ cycleCount' = cycleCount + (IF isWorkSession THEN 1 ELSE 0)
            /\ currentTime' = (IF isWorkSession THEN breakTime ELSE workTime)
            /\ sessionStartTime' = now
            /\ Len(sent') = 1 ]_vars

\* A clock started at mount whose one-minute Work phase is found expired by a
\* tick 121 s later, two phase durations late: one transition, cycleCount 1.
C1_Witness ==
    /\ lastOp = "tick"
    /\ Len(sent) = 1
    /\ workTime = 60
    /\ startTime = MountTime
    /\ now = MountTime + 121000
    /\ sessionStartTime = now
    /\ ~isWorkSession
    /\ cycleCount = 1
    /\ currentTime = breakTime

\* C2: a resync arriving workDuration + breakDuration + 1 seconds after
\* start() anchored the Work phase, with no transition in between, processes
\* both missed expiries: it ends in Work with one more cycle and
\* remaining = workDuration - 1.
C2_ResyncProcessesBothExpiries ==
    [][ ( /\ lastOp = "advance" /\ lastOp' = "resync"
          /\ isActive /\ isWorkSession /\ sessionStartTime = startTime
          /\ currentTime = workTime
          /\ workTime > 0 /\ breakTime > 0
          /\ now - sessionStartTime = 1000 * (workTime + breakTime + 1) ) =>
            /\ isWorkSession'
            /\ cycleCount' = cycleCount + 1
            /\ currentTime' = workTime - 1 ]_vars

\* C3: on a running clock whose remaining was just computed, pause() followed
\* at once by start() leaves remaining as it was: after the pause, after the
\* start, and after a recomputation at that same instant.
C3_PauseStartKeepsRemaining ==
    [][ /\ (resumed = 1 /\ lastOp' = "pause" => currentTime' = currentTime)
        /\ (resumed = 2 /\ lastOp' = "start" => currentTime' = currentTime)
        /\ (resumed = 3 /\ lastOp' = "tick" => currentTime' = currentTime) ]_vars

\* C4: when the interval callback and the visibilitychange listener both run
\* on the same expired Work phase before a render, the render shows one
\* transition: one more cycle, and at most one notification was sent.
C4_OneTransitionWhenBothRun ==
    [][ ( /\ lastOp' = "render"
          /\ pendingOps \in { <<"tick", "resync">>, <<"resync", "tick">> }
          /\ Expired /\ isWorkSession ) =>
            /\ ~isWorkSession'
            /\ cycleCount' = cycleCount + 1
            /\ Len(sent) <= 1 ]_vars

\* C5: the phase anchor is set exactly while the timer is active.
C5_AnchorIffRunning == (sessionStartTime # Null) <=> isActive

\* A running clock whose anchor was moved by a transition.
C5_Witness ==
    /\ isActive
    /\ Recomputed
    /\ Len(sent) = 1
    /\ sessionStartTime = now
    /\ startTime # now

\* C6: the next position is the complement of the current one.
C6_NextIsComplement ==
    /\ currentPosition \in Positions
    /\ nextPosition = Complement(currentPosition)

\* Positions swapped by a phase transition after the starting position was set
\* to standing.
C6_Witness ==
    /\ Recomputed
    /\ Len(sent) = 1
    /\ startingPosition = "standing"
    /\ currentPosition = "sitting"
    /\ nextPosition = "standing"

\* C7: the durations stay inside the documented bounds.
C7_DurationsClamped ==
    /\ workTime >= 60 /\ workTime <= 5400
    /\ breakTime >= 60 /\ breakTime <= 1800

\* A text that is not a number, or a number that is not positive.
Invalid(value) == parseInt(value).nan \/ parseInt(value).n <= 0

\* C8: a duration text that is non-numeric, zero or negative sets the default
\* duration: 25 minutes of work, 5 minutes of break.
C8_InvalidFallsBackToDefault ==
    /\ (lastOp = "setWork" /\ Invalid(typed) => workTime = 25 * 60)
    /\ (lastOp = "setBreak" /\ Invalid(typed) => breakTime = 5 * 60)

\* C9: reset() yields the paused Work phase at its full configured duration,
\* no cycles, no anchor and the starting position, and keeps the settings.
C9_Reset ==
    [][ lastOp' = "reset" =>
            /\ isWorkSession'
            /\ currentTime' = workTime
            /\ cycleCount' = 0
            /\ currentPosition' = startingPosition
            /\ nextPosition' = Complement(startingPosition)
            /\ ~isActive'
            /\ sessionStartTime' = Null
            /\ UNCHANGED <<workTime, breakTime, startingPosition>> ]_vars

\* reset() has acted on a clock whose work duration and starting position had
\* been changed, at a time when a phase had passed.
C9_Witness ==
    /\ lastOp = "reset"
    /\ now > MountTime
    /\ workTime = 60
    /\ currentTime = 60
    /\ startingPosition = "standing"
    /\ currentPosition = "standing"
    /\ cycleCount = 0

C11_NoTransitionWhilePaused ==
    [][ /\ (lastOp' = "pause" =>
                /\ UNCHANGED <<isWorkSession, cycleCount, currentPosition,
                               nextPosition, currentTime>>
                /\ sent' = << >>)
        /\ (~isActive /\ lastOp' \in {"tick", "resync", "hide"} =>
                UNCHANGED stateVars /\ sent' = << >>)
        /\ (~isActive =>
                /\ sent' = << >>
                /\ (isWorkSession' # isWorkSession => lastOp' = "reset")
                /\ (cycleCount' # cycleCount => lastOp' = "reset")
                /\ (currentPosition' # currentPosition =>
                        lastOp' \in {"reset", "toggle", "setStarting"})) ]_vars

\* A one-minute Work phase paused after its countdown had expired: still Work,
\* no cycle counted, position not swapped, nothing sent.
C11_Witness ==
    /\ resumed = 4
    /\ lastOp = "pause"
    /\ workTime = 60
    /\ isWorkSession
    /\ cycleCount = 0
    /\ currentPosition = startingPosition
    /\ sent = << >>

\* C12: when the timer has been started and after every recomputation on an
\* active timer, remaining is max(0, phaseDuration - floor(seconds since the
\* anchor)); on a timer that is not active remaining stays as it is while time
\* passes and the interval or the listener run, pause keeps it, and reset
\* makes it the work duration.
C12_RemainingFromAnchor ==
    [][ /\ ((Recomputed' \/ lastOp' = "start") /\ isActive' =>
                currentTime' =
                    Max(0, phaseDuration' - FloorDiv(now' - sessionStartTime', 1000)))
        /\ (~isActive /\ lastOp' \in {"advance", "tick", "resync", "hide"} =>
                currentTime' = currentTime)
        /\ (lastOp' = "pause" => currentTime' = currentTime)
        /\ (lastOp' = "reset" => currentTime' = workTime') ]_vars

\* C13: of two mounts configured and started alike, whose intervals fired on
\* different schedules, both show the same phase, remaining, cycle count and
\* positions once the interval of each has fired at the present instant.
C13_TickScheduleIrrelevant ==
    (lastOp = "tick" /\ twin.tickedAt = now) => Observed(State) = Observed(twin.st)

\* C14: a tick or resync that finds the Work phase expired at now begins the
\* Break: remaining is the break duration configured then, the anchor is now,
\* current and next position are swapped, and one "work complete"
\* notification is sent that carries the break duration in minutes and the
\* position that was next.
C14_WorkToBreak ==
    [][ (Recomputed' /\ Expired /\ isWorkSession) =>
            /\ ~isWorkSession'
            /\ currentTime' = breakTime
            /\ sessionStartTime' = now
            /\ currentPosition' = nextPosition
            /\ nextPosition' = currentPosition
            /\ Len(sent') = 1
            /\ sent'[1].title = "Work Session Complete!"
            /\ sent'[1].minutes * 60 = breakTime
            /\ sent'[1].position = nextPosition ]_vars

\* The interval found the Work phase expired with the break set to one minute
\* and standing next: a one-minute Break standing, announced as such.
C14_Witness ==
    /\ lastOp = "tick"
    /\ ~isWorkSession
    /\ cycleCount = 1
    /\ breakTime = 60
    /\ currentTime = 60
    /\ sessionStartTime = now
    /\ currentPosition = "standing"
    /\ nextPosition = "sitting"
    /\ sent = << Notice("Work Session Complete!", 60, "standing", "coffee") >>

\* C15: two mounts that differ in the notification permission only and
\* receive the same events at the same times show the same phase, remaining,
\* running flag, cycle count and positions after every event; a mount whose
\* permission is not granted creates no Notification.
C15_PermissionDoesNotInfluenceClock ==
    /\ Observed(State) = Observed(twin.st)
    /\ (notificationPermission # "granted" => shown = << >>)

\* A transition counted in both mounts, announced where permission is granted
\* while the other mount has it denied.
C15_Witness ==
    /\ lastOp = "tick"
    /\ Len(sent) = 1
    /\ shown = sent
    /\ notificationPermission = "granted"
    /\ twin.st.notificationPermission = "denied"
    /\ ~isWorkSession
    /\ cycleCount = 1
    /\ twin.st.cycleCount = 1

\* The running phase ends at an instant the clock is followed to.
EndsInTime ==
    /\ isActive
    /\ WithinCycles
    /\ phaseDuration > 0
    /\ \E d \in Steps : \E k \in 0..((MaxNow - now) \div d) :
            now + k * d - sessionStartTime >= 1000 * phaseDuration

\* C16: on a timer left running with positive durations, while time passes
\* and the interval keeps firing, a Work phase is followed by a Break and a
\* Break by a Work phase, with no action of the user.
C16_PhasesKeepAlternating ==
    /\ (isWorkSession /\ EndsInTime) ~> ~isWorkSession
    /\ (~isWorkSession /\ EndsInTime) ~> isWorkSession

\* A timer left running went through Work and Break and is in Work again.
C16_Witness ==
    /\ lastOp = "tick"
    /\ isActive
    /\ isWorkSession
    /\ cycleCount = 1
    /\ startTime = MountTime
    /\ sessionStartTime = MountTime + 121000
    /\ currentTime = workTime

\* C17: as long as neither the toggle nor a starting position button was used
\* since the mount or the last reset, the current position is the starting
\* position exactly in a Work phase and its complement exactly in a Break.
C17_PositionFollowsPhase ==
    ~track.manual =>
        /\ (currentPosition = startingPosition <=> isWorkSession)
        /\ (currentPosition = Complement(startingPosition) <=> ~isWorkSession)

\* Standing was made the starting position and the timer reset; afterwards a
\* Work phase and a Break passed: standing again, in Work, one cycle counted.
C17_Witness ==
    /\ ~track.manual
    /\ Recomputed
    /\ Len(sent) = 1
    /\ isWorkSession
    /\ cycleCount = 1
    /\ startingPosition = "standing"
    /\ currentPosition = "standing"

\* C18: a starting position button takes effect at once, whether the timer is
\* active or not and in either phase: the starting and the current position
\* are the one chosen, the next position is its complement, and the phase,
\* remaining, the running flag, the cycle count, the anchors and the durations
\* stay as they are.
C18_StartingPositionIsLive ==
    [][ lastOp' = "setStarting" =>
            /\ startingPosition' = typed'[1]
            /\ currentPosition' = typed'[1]
            /\ nextPosition' = Complement(typed'[1])
            /\ UNCHANGED <<isWorkSession, currentTime, isActive, cycleCount,
                           startTime, sessionStartTime, workTime, breakTime>> ]_vars

\* Standing chosen as the starting position during a running Break in which
\* the current position was sitting.
C18_Witness ==
    /\ lastOp = "setStarting"
    /\ typed = <<"standing">>
    /\ track.before = <<"sitting", "standing">>
    /\ isActive
    /\ ~isWorkSession
    /\ cycleCount = 1
    /\ startingPosition = "standing"
    /\ currentPosition = "standing"
    /\ nextPosition = "sitting"

\* C19: two toggles in a row leave the current and the next position as they
\* were before the first.
C19_ToggleTwice ==
    track.toggles = 2 => <<currentPosition, nextPosition>> = track.before

\* The toggle used twice in a row during a running Break.
C19_Witness ==
    /\ track.toggles = 2
    /\ lastOp = "toggle"
    /\ isActive
    /\ ~isWorkSession
    /\ currentPosition = "standing"
    /\ track.before = <<"standing", "sitting">>

\* C20: for a remaining time of 0 to 5400 seconds the time display is the
\* minutes in two digits, a colon, and the seconds of the minute in two
\* digits, each padded with a zero.
C20_FormatTime ==
    currentTime \in 0..5400 =>
        formatTime(currentTime) =
            << DigitChar[(currentTime \div 60) \div 10], DigitChar[(currentTime \div 60) % 10],
               ":",
               DigitChar[(currentTime % 60) \div 10], DigitChar[(currentTime % 60) % 10] >>

\* The interval found 9 minutes and 5 seconds left of a 90 minute Work phase.
C20_Witness ==
    /\ lastOp = "tick"
    /\ workTime = 5400
    /\ currentTime = 545
    /\ formatTime(currentTime) = << "0", "9", ":", "0", "5" >>

\* C21: a change of the duration of the running phase leaves the anchor and
\* remaining as they are; the interval firing next computes remaining from
\* the new duration and the same anchor, and begins the next phase when the
\* time since the anchor has reached the new duration.
C21_DurationChangeWhileRunning ==
    [][ /\ (RetimesRunningPhase(lastOp') =>
                UNCHANGED <<sessionStartTime, currentTime, isWorkSession, isActive>>)
        /\ (track.retimed = "set" /\ lastOp' = "tick" =>
                IF now - sessionStartTime >= 1000 * phaseDuration
                THEN /\ isWorkSession' = ~isWorkSession
                     /\ cycleCount' = cycleCount + (IF isWorkSession THEN 1 ELSE 0)
                     /\ Len(sent') = 1
                ELSE /\ UNCHANGED <<isWorkSession, sessionStartTime, cycleCount>>
                     /\ currentTime' =
                            phaseDuration - FloorDiv(now - sessionStartTime, 1000)) ]_vars

\* A Work phase of 30 minutes was cut to one minute a minute after the start:
\* the interval firing next began the Break.
C21_Witness ==
    /\ track.retimed = "ticked"
    /\ lastOp = "tick"
    /\ workTime = 60
    /\ ~isWorkSession
    /\ cycleCount = 1
    /\ startTime = MountTime
    /\ sessionStartTime = MountTime + 60500
    /\ Len(sent) = 1

\* C22: a change of the work time to m minutes makes the work duration m * 60
\* and, in a Work phase that is not running, remaining too; in a Break or
\* while running remaining stays.  The phase, the running flag, the anchor,
\* the cycle count, the positions and the other duration stay in every case.
\* A change of the break time does the same with Break for Work.
C22_DurationChangeFrame ==
    [][ /\ (lastOp' = "setWork" =>
                /\ workTime' = 60 * OrDefault(parseInt(typed'), 25)
                /\ currentTime' =
                        (IF isWorkSession /\ ~isActive THEN workTime' ELSE currentTime)
                /\ UNCHANGED <<isWorkSession, isActive, sessionStartTime, cycleCount,
                               currentPosition, nextPosition, breakTime>>)
        /\ (lastOp' = "setBreak" =>
                /\ breakTime' = 60 * OrDefault(parseInt(typed'), 5)
                /\ currentTime' =
                        (IF ~isWorkSession /\ ~isActive THEN breakTime' ELSE currentTime)
                /\ UNCHANGED <<isWorkSession, isActive, sessionStartTime, cycleCount,
                               currentPosition, nextPosition, workTime>>) ]_vars

\* The break time set to one minute in a paused Break.
C22_Witness ==
    /\ lastOp = "setBreak"
    /\ typed = <<"1">>
    /\ ~isActive
    /\ ~isWorkSession
    /\ cycleCount = 1
    /\ breakTime = 60
    /\ currentTime = 60
    /\ workTime = 60

CountedFrom == IF Falsy(sessionStartTime) THEN effectNow ELSE sessionStartTime

\* C24: toggle() swaps the current and the next position in every state and
\* leaves the phase, remaining, running, the anchor, the cycle count, the
\* starting position and both durations as they are; the instant the running
\* phase is counted from, and so the instant it expires, stays the same.
C24_ToggleLeavesTimer ==
    [][ lastOp' = "toggle" =>
            /\ currentPosition' = nextPosition
            /\ nextPosition' = currentPosition
            /\ UNCHANGED <<isWorkSession, currentTime, isActive, startTime, sessionStartTime,
                           cycleCount, startingPosition, workTime, breakTime>>
            /\ (isActive => CountedFrom' = CountedFrom) ]_vars

\* A toggle a minute into a running one minute Break.
C24_Witness ==
    /\ lastOp = "toggle"
    /\ isActive
    /\ ~isWorkSession
    /\ cycleCount = 1
    /\ now = MountTime + 121000
    /\ sessionStartTime = MountTime + 60500
    /\ currentPosition = "sitting"
    /\ track.before = <<"standing", "sitting">>

\* C25: within one phase remaining never increases: with positive durations,
\* no tick, resync, pause, start, toggle or choice of starting position that
\* leaves the phase as it is raises it; in particular a start() after a
\* pause() and the tick after it give back none of the seconds counted down.
C25_RemainingNeverIncreases ==
    [][ ( /\ lastOp' \in {"tick", "resync", "hide", "pause", "start", "toggle", "setStarting"}
          /\ isWorkSession' = isWorkSession
          /\ cycleCount' = cycleCount
          /\ workTime > 0 /\ breakTime > 0 ) =>
            currentTime' <= currentTime ]_vars

\* C26: with both durations inside the documented bounds, remaining lies
\* between 0 and the duration of the phase, so that the progress shown,
\* (totalTime - currentTime) / totalTime * 100, lies between 0 and 100; also
\* right after a duration change on a running clock and after a transition.
C26_RemainingWithinPhase ==
    ( /\ workTime \in 60..5400
      /\ breakTime \in 60..1800 ) =>
        /\ 0 <= currentTime
        /\ currentTime <= phaseDuration
        /\ 0 <= 100 * (phaseDuration - currentTime)
        /\ 100 * (phaseDuration - currentTime) <= 100 * phaseDuration

\* C27: when a manual toggle and the interval callback of an expired phase
\* both run from the positions of the same render, the render that follows
\* shows two swaps: the current and the next position are those of the
\* snapshot, no swap is lost.
C27_NoSwapLost ==
    [][ ( /\ lastOp' = "render"
          /\ pendingOps \in { <<"toggle", "tick">>, <<"tick", "toggle">> }
          /\ Expired ) =>
            UNCHANGED <<currentPosition, nextPosition>> ]_vars

\* C28: in the earlier version a tick on a running timer with remaining > 1
\* lowers remaining by one and changes nothing else; the tick that finds
\* remaining <= 1 flips the phase, sets remaining to the full duration of the
\* new phase, swaps the positions, counts a cycle iff a Work phase ended, and
\* stops the timer; a stopped timer does not tick, and only start() runs it.
C28_DecrementPerTick ==
    [][ /\ (lastOp' = "tick" =>
                /\ isActive
                /\ IF currentTime > 1
                   THEN /\ currentTime' = currentTime - 1
                        /\ sent' = << >>
                        /\ UNCHANGED <<isActive, isWorkSession, cycleCount, currentPosition,
                                       nextPosition, startingPosition, workTime, breakTime>>
                   ELSE /\ isWorkSession' = ~isWorkSession
                        /\ currentTime' = (IF isWorkSession THEN breakTime ELSE workTime)
                        /\ currentPosition' = nextPosition
                        /\ nextPosition' = currentPosition
                        /\ cycleCount' = cycleCount + (IF isWorkSession THEN 1 ELSE 0)
                        /\ ~isActive'
                        /\ Len(sent') = 1
                        /\ UNCHANGED <<startingPosition, workTime, breakTime>>)
        /\ (~isActive /\ isActive' => lastOp' = "start") ]_vars

\* The tick that ended a one minute Work phase: the timer waits, stopped, at
\* the head of a ten minute Break.
C28_Witness ==
    /\ lastOp = "tick"
    /\ ~isActive
    /\ ~isWorkSession
    /\ cycleCount = 1
    /\ workTime = 60
    /\ currentTime = breakTime
    /\ breakTime = 600
    /\ currentPosition = "standing"
    /\ nextPosition = "sitting"
    /\ Len(sent) = 1

====
